---- MODULE Spec2Model ----
(***************************************************************************)
(* A model of huygens_simulator: Wavelet.field, the Simulator constructors *)
(* (the package variant that derives the mesh from x and y, and the older  *)
(* src/huygens.py variant that receives the two meshes), Simulator.frame,  *)
(* simulate, animate with its generate_frame callback, and print_progress. *)
(*                                                                         *)
(* Numbers.  The program computes in IEEE binary floating point: float64   *)
(* everywhere, float32 in the array simulate returns.  The model keeps the *)
(* structure of that arithmetic at a reduced width: a float is an integer  *)
(* number of quanta with at most Prec significant bits, and every          *)
(* operation returns the nearest such number, ties to the even significand.*)
(* Prec64 stands for the 53 bits of float64, Prec32 for the 24 of float32. *)
(* Angles are counted in twelfths of a turn, so that cos is a table.       *)
(***************************************************************************)
EXTENDS Integers, Sequences, FiniteSets, TLC

(* ------------------------------ bounds --------------------------------- *)
Prec64 == 4
Prec32 == 2
MaxWavelets == 3

(* The default of print_progress's interval parameter. *)
DefaultInterval == 10

(* ------------------------- floating point ------------------------------ *)
Abs(n) == IF n < 0 THEN -n ELSE n

Sign(n) == IF n < 0 THEN -1 ELSE IF n = 0 THEN 0 ELSE 1

(* How many low bits a magnitude a loses to fit p significant bits. *)
RECURSIVE Exponent(_, _)
Exponent(p, a) == IF a < 2^p THEN 0 ELSE 1 + Exponent(p, a \div 2)

(* The integer nearest to n/d (n >= 0, d > 0), ties to even. *)
RoundNearestEven(n, d) ==
    LET q == n \div d
        r == n % d
    IN  IF 2*r > d \/ (2*r = d /\ q % 2 = 1) THEN q + 1 ELSE q

(* The p-bit float nearest to n/d quanta (n >= 0, d > 0). *)
RoundRat(p, n, d) ==
    LET e == Exponent(p, n \div d)
    IN  RoundNearestEven(n, d * 2^e) * 2^e

(* The p-bit float nearest to the integer v. *)
RoundTo(p, v) == Sign(v) * RoundRat(p, Abs(v), 1)

FAdd(a, b) == RoundTo(Prec64, a + b)
FSub(a, b) == RoundTo(Prec64, a - b)
FMul(a, b) == RoundTo(Prec64, a * b)

(* The integer nearest to the square root of n >= 0. *)
RECURSIVE SqrtFrom(_, _)
SqrtFrom(n, r) == IF (r + 1) * (r + 1) <= n THEN SqrtFrom(n, r + 1) ELSE r

NearestSqrt(n) ==
    LET r == SqrtFrom(n, 0)
    IN  IF n - r*r > r THEN r + 1 ELSE r

FSqrt(a) == RoundTo(Prec64, NearestSqrt(a))

(* cos of n twelfths of a turn, in eighths, rounded to nearest. *)
CosTable == <<8, 7, 4, 0, -4, -7, -8, -7, -4, 0, 4, 7>>

Cos(phase) == CosTable[(phase % Len(CosTable)) + 1]

(* The float32 nearest to a float64: what storing into a float32 array does. *)
Cast32(v) == RoundTo(Prec32, v)

(* ------------------------------ arrays --------------------------------- *)
Shape(a) == <<Len(a), IF Len(a) = 0 THEN 0 ELSE Len(a[1])>>

(* An array left uninitialised instead of zeroed (np.empty for np.zeros). *)
ZerosUninit(shape) == [i \in 1..shape[1] |-> [j \in 1..shape[2] |-> 1]]

Zeros(shape) == [i \in 1..shape[1] |-> [j \in 1..shape[2] |-> 0]]

ArrayAdd(a, b) == [i \in 1..Len(a) |-> [j \in 1..Len(a[i]) |-> FAdd(a[i][j], b[i][j])]]

ArrayCast32(a) == [i \in 1..Len(a) |-> [j \in 1..Len(a[i]) |-> Cast32(a[i][j])]]

(* The x mesh with matrix indexing (meshgrid(..., indexing='ij')). *)
MeshXij(x, y) == [i \in 1..Len(x) |-> [j \in 1..Len(y) |-> x[i]]]

(* numpy.meshgrid(x, y) for one-dimensional x and y. *)
MeshX(x, y) == [i \in 1..Len(y) |-> [j \in 1..Len(x) |-> x[j]]]
MeshY(x, y) == [i \in 1..Len(y) |-> [j \in 1..Len(x) |-> y[i]]]

RECURSIVE SeqMin(_)
SeqMin(s) == IF Len(s) = 1 THEN s[1]
             ELSE LET m == SeqMin(Tail(s)) IN IF s[1] < m THEN s[1] ELSE m

RECURSIVE SeqMax(_)
SeqMax(s) == IF Len(s) = 1 THEN s[1]
             ELSE LET m == SeqMax(Tail(s)) IN IF s[1] > m THEN s[1] ELSE m

(* ------------------------------ Wavelet -------------------------------- *)
Wavelet(ang_frequency, wave_vector, position, amplitude, phase) ==
    [ang_frequency |-> ang_frequency, wave_vector |-> wave_vector,
     position |-> position, amplitude |-> amplitude, phase |-> phase]

(* Wavelet.field at one mesh point.  The older src/huygens.py takes the     *)
(* real part of amplitude*exp(1j*arg), which is the same amplitude*cos(arg). *)
FieldAt(w, time, xv, yv) ==
    LET x_displacement == FSub(xv, w.position[1])
        y_displacement == FSub(yv, w.position[2])
        displacement == FSqrt(FAdd(FMul(x_displacement, x_displacement),
                                   FMul(y_displacement, y_displacement)))
        arg == FAdd(FSub(FMul(w.wave_vector, displacement),
                         FMul(w.ang_frequency, time)), w.phase)
    IN  FMul(w.amplitude, Cos(arg))

(* Wavelet.field: a new array of the shape of x_mesh. *)
Field(w, time, x_mesh, y_mesh) ==
    [i \in 1..Len(x_mesh) |-> [j \in 1..Len(x_mesh[i]) |->
        FieldAt(w, time, x_mesh[i][j], y_mesh[i][j])]]

(* ----------------------------- Simulator ------------------------------- *)
(* The loop of frame with "field =" written for "field +=". *)
RECURSIVE AccumulateOverwrite(_, _, _, _, _, _)
AccumulateOverwrite(field, wavelets, k, time, x_mesh, y_mesh) ==
    IF k > Len(wavelets) THEN field
    ELSE AccumulateOverwrite(Field(wavelets[k], time, x_mesh, y_mesh),
                             wavelets, k + 1, time, x_mesh, y_mesh)

(* The loop of Simulator.frame over wavelets[k..]: field += wavelet.field. *)
RECURSIVE Accumulate(_, _, _, _, _, _)
Accumulate(field, wavelets, k, time, x_mesh, y_mesh) ==
    IF k > Len(wavelets) THEN field
    ELSE Accumulate(ArrayAdd(field, Field(wavelets[k], time, x_mesh, y_mesh)),
                    wavelets, k + 1, time, x_mesh, y_mesh)

(* Simulator.frame *)
Frame(s, time) ==
    Accumulate(Zeros(s.mesh_shape), s.wavelets, 1, time, s.x_mesh, s.y_mesh)

(* numpy.arange(start, stop, step) for float arguments: the length is the  *)
(* ceiling of the float64 quotient (stop - start)/step, a zero step raises, *)
(* a length <= 0 gives the empty array.                                     *)
ArangeLength(start, stop, step) ==
    LET diff == FSub(stop, start)
        scale == 2^(Prec64 - 1)
    IN  IF diff * step <= 0 THEN 0
        ELSE IF Abs(diff) < Abs(step) THEN 1
        ELSE (RoundRat(Prec64, Abs(diff) * scale, Abs(step)) + scale - 1) \div scale

(* Element i (from 0) of numpy.arange: start, then start + step, then       *)
(* start + i*delta with delta = (start + step) - start, all in float64.     *)
ArangePoint(start, step, i) ==
    LET next == FAdd(start, step)
        delta == FSub(next, start)
    IN  IF i = 0 THEN start
        ELSE IF i = 1 THEN next
        ELSE FAdd(start, FMul(i, delta))

arange(start, stop, step) ==
    IF step = 0 THEN [raised |-> "ZeroDivisionError", points |-> <<>>]
    ELSE [raised |-> "",
          points |-> [k \in 1..ArangeLength(start, stop, step) |->
                         ArangePoint(start, step, k - 1)]]

(* Simulator.print_progress: what it raises and the lines it prints. *)
print_progress(i, num_frames, interval) ==
    LET fr_num == i + 1
    IN  IF interval = 0 THEN [raised |-> "ZeroDivisionError", out |-> <<>>]
        ELSE IF fr_num % interval = 0 \/ fr_num = num_frames
             THEN [raised |-> "", out |-> << <<"print", fr_num, num_frames>> >>]
             ELSE [raised |-> "", out |-> <<>>]

(* The loop of Simulator.simulate from index i (from 0): the result array   *)
(* holds float32, so the assignment result[i] = field converts.  The log    *)
(* lists what happened, in order.                                           *)
RECURSIVE SimulateLoop(_, _, _, _, _)
SimulateLoop(s, time_points, i, result, log) ==
    IF i >= Len(time_points) THEN [result |-> result, log |-> log]
    ELSE LET time == time_points[i + 1]
             progress == print_progress(i, Len(time_points), DefaultInterval)
             field == Frame(s, time)
         IN  SimulateLoop(s, time_points, i + 1,
                 Append(result, ArrayCast32(field)),
                 log \o << <<"print_progress", i, Len(time_points)>> >>
                     \o progress.out
                     \o << <<"frame", time, i>>, <<"store", i, i>> >>)

(* Simulator.simulate *)
Simulate(s, start, stop, step) ==
    LET tp == arange(start, stop, step)
        y_dim == s.mesh_shape[1]
        x_dim == s.mesh_shape[2]
        t_dim == Len(tp.points)
        run == SimulateLoop(s, tp.points, 0, <<>>, <<>>)
    IN  IF tp.raised # ""
        THEN [raised |-> tp.raised, time_points |-> <<>>, ret |-> <<>>,
              ret_shape |-> <<>>, log |-> <<>>]
        ELSE [raised |-> "", time_points |-> tp.points, ret |-> run.result,
              ret_shape |-> <<t_dim, y_dim, x_dim>>, log |-> run.log]

(* ------------------------------- inputs -------------------------------- *)
(* The wavelets a caller builds: same frequency and wave vector, two        *)
(* positions and amplitudes.                                                *)
Catalogue == {Wavelet(1, 1, <<0, 0>>, 1, 0), Wavelet(1, 1, <<3, 0>>, 2, 0)}

WaveletLists == UNION {[1..n -> Catalogue] : n \in 0..MaxWavelets}

(* Coordinate sequences as numpy.arange and linspace give them: increasing. *)
GridSeqs == {<<0>>, <<3>>, <<0, 3>>}

FrameTimes == {0, 1, 3}
Starts == {0, 4, 20}
Stops == {4, 20}
Steps == {-5, 0, 5}
ProgressCalls == {<<0, 1>>, <<0, 11>>, <<9, 11>>, <<10, 11>>}
Intervals == {0, 2, 10}

(* -------------------------------- state -------------------------------- *)
VARIABLES
    sim,     \* the Simulator object: its attributes, live once constructed
    sim0,    \* the attributes as the constructor left them
    last     \* the call in progress or just returned, Idle between calls

vars == <<sim, sim0, last>>

NoSim == [live |-> FALSE, variant |-> "", wavelets |-> <<>>, x |-> <<>>, y |-> <<>>,
          x_mesh |-> <<>>, y_mesh |-> <<>>, mesh_shape |-> <<0, 0>>]

Idle == [op |-> "none", args |-> <<>>, raised |-> "", ret |-> <<>>,
         ret_shape |-> <<>>, alias |-> "", time_points |-> <<>>, log |-> <<>>,
         phase |-> "", index |-> 0, first |-> <<>>, extent |-> <<>>,
         clim |-> <<>>, file |-> FALSE, written |-> FALSE]

Init == sim = NoSim /\ sim0 = NoSim /\ last = Idle

(* Simulator.__init__(wavelets, x, y) of the package *)
Construct(wavelets, x, y) ==
    /\ ~sim.live /\ last = Idle
    /\ LET x_mesh == MeshX(x, y)
           y_mesh == MeshY(x, y)
           made == [live |-> TRUE, variant |-> "xy", wavelets |-> wavelets,
                    x |-> x, y |-> y, x_mesh |-> x_mesh, y_mesh |-> y_mesh,
                    mesh_shape |-> Shape(x_mesh)]
       IN  IF Shape(x_mesh) = Shape(y_mesh)
           THEN /\ sim' = made /\ sim0' = made
                /\ last' = [Idle EXCEPT !.op = "construct",
                                        !.args = Shape(x_mesh) \o Shape(y_mesh)]
           ELSE /\ UNCHANGED <<sim, sim0>>
                /\ last' = [Idle EXCEPT !.op = "construct",
                                        !.args = Shape(x_mesh) \o Shape(y_mesh),
                                        !.raised = "AssertionError"]

(* The constructor of src/huygens.py without its assert. *)
ConstructFromMeshUnchecked(wavelets, x_mesh, y_mesh) ==
    /\ ~sim.live /\ last = Idle
    /\ LET made == [live |-> TRUE, variant |-> "mesh", wavelets |-> wavelets,
                    x |-> <<>>, y |-> <<>>, x_mesh |-> x_mesh, y_mesh |-> y_mesh,
                    mesh_shape |-> Shape(x_mesh)]
       IN  /\ sim' = made /\ sim0' = made
           /\ last' = [Idle EXCEPT !.op = "construct_mesh",
                                   !.args = Shape(x_mesh) \o Shape(y_mesh)]

(* Simulator.__init__(wavelets, x_mesh, y_mesh) of src/huygens.py *)
ConstructFromMesh(wavelets, x_mesh, y_mesh) ==
    /\ ~sim.live /\ last = Idle
    /\ LET made == [live |-> TRUE, variant |-> "mesh", wavelets |-> wavelets,
                    x |-> <<>>, y |-> <<>>, x_mesh |-> x_mesh, y_mesh |-> y_mesh,
                    mesh_shape |-> Shape(x_mesh)]
       IN  IF Shape(x_mesh) = Shape(y_mesh)
           THEN /\ sim' = made /\ sim0' = made
                /\ last' = [Idle EXCEPT !.op = "construct_mesh",
                                        !.args = Shape(x_mesh) \o Shape(y_mesh)]
           ELSE /\ UNCHANGED <<sim, sim0>>
                /\ last' = [Idle EXCEPT !.op = "construct_mesh",
                                        !.args = Shape(x_mesh) \o Shape(y_mesh),
                                        !.raised = "AssertionError"]

(* A call of wavelets[k].field(time, x_mesh, y_mesh) on the simulator's mesh *)
CallField(k, time) ==
    /\ sim.live /\ last = Idle /\ k \in 1..Len(sim.wavelets)
    /\ last' = [Idle EXCEPT !.op = "field", !.args = <<k, time>>,
                  !.ret = Field(sim.wavelets[k], time, sim.x_mesh, sim.y_mesh),
                  !.alias = "fresh"]
    /\ UNCHANGED <<sim, sim0>>

(* frame computing the displacement in place in the simulator's x mesh. *)
CallFrameInPlace(time) ==
    /\ sim.live /\ last = Idle
    /\ last' = [Idle EXCEPT !.op = "frame", !.args = <<time>>,
                  !.ret = Frame(sim, time), !.alias = "fresh"]
    /\ sim' = [sim EXCEPT !.x_mesh =
                  [i \in 1..Len(sim.x_mesh) |-> [j \in 1..Len(sim.x_mesh[i]) |->
                      FSub(sim.x_mesh[i][j], 3)]]]
    /\ UNCHANGED sim0

(* A call of Simulator.frame(time): the array returned is the one np.zeros  *)
(* made, no attribute of the simulator.                                     *)
CallFrame(time) ==
    /\ sim.live /\ last = Idle
    /\ last' = [Idle EXCEPT !.op = "frame", !.args = <<time>>,
                  !.ret = Frame(sim, time), !.alias = "fresh"]
    /\ UNCHANGED <<sim, sim0>>

(* The caller writes into the array frame returned. *)
WriteReturned ==
    /\ last.op = "frame" /\ ~last.written /\ last.ret # <<>>
    /\ LET bump(a) == [a EXCEPT ![1][1] = a[1][1] + 1]
       IN  /\ last' = [last EXCEPT !.written = TRUE,
                          !.ret = IF last.alias = "fresh" THEN bump(last.ret)
                                  ELSE last.ret]
           /\ sim' = IF last.alias = "x_mesh"
                     THEN [sim EXCEPT !.x_mesh = bump(sim.x_mesh)]
                     ELSE sim
    /\ UNCHANGED sim0

(* A call of Simulator.simulate(start, stop, time_step) *)
CallSimulate(start, stop, step) ==
    /\ sim.live /\ sim.variant = "xy" /\ last = Idle
    /\ LET r == Simulate(sim, start, stop, step)
       IN  last' = [Idle EXCEPT !.op = "simulate", !.args = <<start, stop, step>>,
                      !.raised = r.raised, !.ret = r.ret, !.ret_shape = r.ret_shape,
                      !.alias = "fresh", !.time_points = r.time_points,
                      !.log = r.log]
    /\ UNCHANGED <<sim, sim0>>

(* A call of Simulator.print_progress(i, num_frames, interval) *)
CallPrintProgress(i, num_frames, interval) ==
    /\ last = Idle /\ sim.variant # "mesh"
    /\ LET r == print_progress(i, num_frames, interval)
       IN  last' = [Idle EXCEPT !.op = "print_progress",
                      !.args = <<i, num_frames, interval>>,
                      !.raised = r.raised, !.log = r.out]
    /\ UNCHANGED <<sim, sim0>>

(* The values of a two-dimensional array. *)
Values(a) == {a[i][j] : i \in 1..Len(a), j \in 1..(IF Len(a) = 0 THEN 0 ELSE Len(a[1]))}

SetMin(S) == CHOOSE m \in S : \A v \in S : m <= v
SetMax(S) == CHOOSE m \in S : \A v \in S : m >= v

(* Simulator.animate up to the creation of the FuncAnimation: the time      *)
(* points, the extent (package only), the first frame shown by imshow,      *)
(* whose values fix the colour scale, and num_frames.                       *)
AnimateBegin(start, stop, step) ==
    /\ sim.live /\ last = Idle
    /\ LET tp == arange(start, stop, step)
           call == [Idle EXCEPT !.op = "animate", !.args = <<start, stop, step>>]
           first == Frame(sim, tp.points[1])
       IN  IF tp.raised # ""
           THEN last' = [call EXCEPT !.raised = tp.raised]
           ELSE IF Len(tp.points) = 0
           THEN last' = [call EXCEPT !.raised = "IndexError"]
           ELSE last' = [call EXCEPT !.phase = "begun",
                           !.time_points = tp.points,
                           !.extent = IF sim.variant = "xy"
                                      THEN <<SeqMin(sim.x), SeqMax(sim.x),
                                             SeqMin(sim.y), SeqMax(sim.y)>>
                                      ELSE <<>>,
                           !.first = first, !.ret = first,
                           !.clim = <<SetMin(Values(first)), SetMax(Values(first))>>,
                           !.log = << <<"frame", tp.points[1], 0>>,
                                      <<"imshow", 0, 0>> >>]
    /\ UNCHANGED <<sim, sim0>>

(* The callback generate_frame(i), called by the FuncAnimation while it     *)
(* saves: the package reports progress, then both variants compute the      *)
(* frame and hand it to the image with set_array.                           *)
GenerateFrame(i) ==
    /\ last.op = "animate" /\ last.phase \in {"begun", "frame"}
    /\ i \in 0..(Len(last.time_points) - 1)
    /\ LET num_frames == Len(last.time_points)
           progress == print_progress(i, num_frames, DefaultInterval)
           field == Frame(sim, last.time_points[i + 1])
       IN  last' = [last EXCEPT !.phase = "frame", !.index = i, !.ret = field,
                      !.log = IF sim.variant = "xy"
                              THEN << <<"print_progress", i, num_frames>> >>
                                   \o progress.out
                                   \o << <<"frame", last.time_points[i + 1], i>>,
                                         <<"set_array", i, i>> >>
                              ELSE << <<"frame", last.time_points[i + 1], i>>,
                                      <<"print", i, last.time_points[i + 1]>>,
                                      <<"set_array", i, i>> >>]
    /\ UNCHANGED <<sim, sim0>>

(* anim.save returns: the file is written and animate returns. *)
AnimateSave ==
    /\ last.op = "animate" /\ last.phase \in {"begun", "frame"}
    /\ last' = [last EXCEPT !.phase = "saved", !.file = TRUE, !.index = 0,
                   !.ret = <<>>, !.log = << <<"save", 0, 0>> >>]
    /\ UNCHANGED <<sim, sim0>>

(* The caller is done with what the call returned or raised. *)
Return ==
    /\ last.op # "none"
    /\ ~(last.op = "animate" /\ last.phase \in {"begun", "frame"})
    /\ last' = Idle
    /\ UNCHANGED <<sim, sim0>>

Next ==
    \/ \E wavelets \in WaveletLists, x \in GridSeqs, y \in GridSeqs :
          Construct(wavelets, x, y)
    \/ \E wavelets \in WaveletLists, x1 \in GridSeqs, y1 \in GridSeqs,
          x2 \in GridSeqs, y2 \in GridSeqs :
          ConstructFromMesh(wavelets, MeshX(x1, y1), MeshY(x2, y2))
    \/ \E k \in 1..MaxWavelets, time \in FrameTimes : CallField(k, time)
    \/ \E time \in FrameTimes : CallFrame(time)
    \/ WriteReturned
    \/ \E start \in Starts, stop \in Stops, step \in Steps :
          CallSimulate(start, stop, step)
    \/ \E start \in Starts, stop \in Stops, step \in Steps :
          AnimateBegin(start, stop, step)
    \/ \E i \in 0..Len(last.time_points) : GenerateFrame(i)
    \/ AnimateSave
    \/ \E c \in ProgressCalls, interval \in Intervals :
          CallPrintProgress(c[1], c[2], interval)
    \/ Return

Spec == Init /\ [][Next]_vars

(* ------------------------------- claims -------------------------------- *)
Ranged == last.op \in {"simulate", "animate"}

(* An array of r rows of c entries. *)
HasShape(a, r, c) == Len(a) = r /\ \A i \in 1..Len(a) : Len(a[i]) = c

(* C1: for time_step > 0, element i of what simulate returns equals the     *)
(* array frame(time_points[i]) returns, entry for entry and exactly, and so *)
(* does the field generate_frame(i) hands to the image: storing a frame in  *)
(* the result array alters no value.                                        *)
C1_DeliveriesEqualFrame ==
    /\ (last.op = "simulate" /\ last.raised = "" /\ last.args[3] > 0) =>
          \A i \in 1..Len(last.time_points) :
              last.ret[i] = Frame(sim, last.time_points[i])
    /\ (last.op = "animate" /\ last.phase = "frame" /\ last.args[3] > 0) =>
          last.ret = Frame(sim, last.time_points[last.index + 1])

(* C2: simulate and animate called with time_step <= 0 fail with an error   *)
(* before any frame is computed, any progress is reported and any output    *)
(* (result array, image, file) is produced; they never return a result.     *)
C2_NonPositiveStepRejected ==
    (Ranged /\ last.args[3] <= 0) =>
        /\ last.raised # ""
        /\ last.ret = <<>> /\ last.ret_shape = <<>>
        /\ last.log = <<>>
        /\ last.phase = "" /\ ~last.file

(* C3: with an empty wavelet collection frame(time) returns an array of the *)
(* grid's shape whose every entry is zero, and so is every frame of         *)
(* simulate over a range with time_step > 0.                                *)
C3_EmptyCollectionAllZero ==
    (sim.live /\ sim.wavelets = <<>>) =>
        /\ (last.op = "frame" /\ ~last.written) =>
              /\ HasShape(last.ret, sim.mesh_shape[1], sim.mesh_shape[2])
              /\ Shape(last.ret) = Shape(sim.x_mesh)
              /\ Values(last.ret) = {0}
        /\ (last.op = "simulate" /\ last.raised = "" /\ last.args[3] > 0) =>
              \A i \in 1..Len(last.ret) :
                  /\ HasShape(last.ret[i], sim.mesh_shape[1], sim.mesh_shape[2])
                  /\ Values(last.ret[i]) = {0}

C3_Witness ==
    /\ sim.live /\ sim.wavelets = <<>> /\ Len(sim.x) = 2
    /\ last.op = "simulate" /\ last.args[3] > 0 /\ Len(last.ret) >= 2

(* The time points of the half-open range [start, stop) in exact arithmetic. *)
ExactCount(start, stop, step) ==
    IF stop <= start THEN 0 ELSE (stop - start + step - 1) \div step

ExactPoints(start, stop, step) ==
    [k \in 1..ExactCount(start, stop, step) |-> start + (k - 1) * step]

(* C4: for time_step > 0 the time points of simulate and animate are        *)
(* exactly start, start + time_step, start + 2*time_step, ... below stop:   *)
(* stop is never a time point, the points increase strictly, and simulate   *)
(* returns one snapshot per point, in that order.                           *)
C4_HalfOpenTimePoints ==
    (Ranged /\ last.args[3] > 0 /\ last.raised = "") =>
        /\ last.time_points = ExactPoints(last.args[1], last.args[2], last.args[3])
        /\ \A k \in 1..Len(last.time_points) : last.time_points[k] < last.args[2]
        /\ \A k \in 1..(Len(last.time_points) - 1) :
               last.time_points[k] < last.time_points[k + 1]
        /\ last.op = "simulate" => Len(last.ret) = Len(last.time_points)

(* The permutations of 1..n, and a simulator holding other wavelets on the  *)
(* same grid.                                                               *)
Perms(n) == {f \in [1..n -> 1..n] : \A a, b \in 1..n : f[a] = f[b] => a = b}

Reordered(ws, f) == [k \in 1..Len(ws) |-> ws[f[k]]]

Holding(s, ws) == [s EXCEPT !.wavelets = ws]

(* The sum, in exact arithmetic, of the wavelets' fields at a mesh point,   *)
(* and the sum of their magnitudes.                                         *)
RECURSIVE ExactSum(_, _, _, _, _)
ExactSum(ws, k, time, xv, yv) ==
    IF k > Len(ws) THEN 0
    ELSE FieldAt(ws[k], time, xv, yv) + ExactSum(ws, k + 1, time, xv, yv)

RECURSIVE AbsSum(_, _, _, _, _)
AbsSum(ws, k, time, xv, yv) ==
    IF k > Len(ws) THEN 0
    ELSE Abs(FieldAt(ws[k], time, xv, yv)) + AbsSum(ws, k + 1, time, xv, yv)

(* The rounding error of adding n floats one after the other is at most     *)
(* (n-1)u/(1 - (n-1)u) times the sum of their magnitudes, u = 2^-Prec64.    *)
WithinRounding(err, n, magnitude, times) ==
    LET adds == IF n > 1 THEN n - 1 ELSE 0
    IN  Abs(err) * (2^Prec64 - adds) <= times * adds * magnitude

(* C5 as stated: the frame of [S1, S2] is the elementwise sum of the frames *)
(* of [S1] and of [S2]; frame(t) is the sum of the wavelets' fields and     *)
(* does not depend on the order of the wavelets in the collection.          *)
C5_OrderIrrelevant ==
    (sim.live /\ last.op = "frame" /\ ~last.written) =>
        LET ws == sim.wavelets
            t == last.args[1]
        IN  /\ Len(ws) = 2 =>
                  last.ret = ArrayAdd(Frame(Holding(sim, <<ws[1]>>), t),
                                      Frame(Holding(sim, <<ws[2]>>), t))
            /\ \A f \in Perms(Len(ws)) :
                  Frame(Holding(sim, Reordered(ws, f)), t) = last.ret

(* C5 amended: the frame of [S1, S2] is the elementwise sum of the frames   *)
(* of [S1] and of [S2], and for at most two wavelets the order does not     *)
(* matter; for more, frame(t) is the sum of the fields in collection order  *)
(* up to the rounding error of float64 addition, and so two orders differ   *)
(* by at most twice that error.                                             *)
C5_SuperpositionUpToRounding ==
    (sim.live /\ last.op = "frame" /\ ~last.written) =>
        LET ws == sim.wavelets
            n == Len(ws)
            t == last.args[1]
        IN  /\ n = 2 =>
                  last.ret = ArrayAdd(Frame(Holding(sim, <<ws[1]>>), t),
                                      Frame(Holding(sim, <<ws[2]>>), t))
            /\ n <= 2 =>
                  \A f \in Perms(n) :
                      Frame(Holding(sim, Reordered(ws, f)), t) = last.ret
            /\ \A i \in 1..Len(last.ret) : \A j \in 1..Len(last.ret[i]) :
                  LET xv == sim.x_mesh[i][j]
                      yv == sim.y_mesh[i][j]
                  IN  /\ WithinRounding(last.ret[i][j] - ExactSum(ws, 1, t, xv, yv),
                                        n, AbsSum(ws, 1, t, xv, yv), 1)
                      /\ \A f \in Perms(n) :
                            WithinRounding(
                                Frame(Holding(sim, Reordered(ws, f)), t)[i][j]
                                    - last.ret[i][j],
                                n, AbsSum(ws, 1, t, xv, yv), 2)

C5_Witness ==
    /\ sim.live /\ last.op = "frame" /\ ~last.written /\ Len(sim.wavelets) = 3
    /\ \E f \in Perms(3) :
          Frame(Holding(sim, Reordered(sim.wavelets, f)), last.args[1]) # last.ret

(* C6: no call of field, frame, simulate, animate or print_progress changes *)
(* the simulator's wavelets (nor any attribute of one), x, y, x_mesh,       *)
(* y_mesh or mesh_shape from what the constructor set; so frame(time)       *)
(* returns, after any other calls, the array it returns right after         *)
(* construction, and that array is a new one, no attribute of the           *)
(* simulator: writing into it leaves the simulator as it was.               *)
C6_StateUnchanged ==
    /\ sim = sim0
    /\ (last.op = "frame" /\ ~last.written) =>
          last.ret = Frame(sim0, last.args[1])
    /\ last.op \in {"field", "frame", "simulate"} => last.alias = "fresh"

C6_Witness ==
    /\ sim.live /\ sim.wavelets # <<>>
    /\ last.op = "frame" /\ last.written

(* C7: for every interval N >= 0 and index i below num_frames,              *)
(* print_progress(i, num_frames, N) raises nothing and prints               *)
(* (i+1, num_frames) exactly when i+1 is a multiple of N or equals          *)
(* num_frames; simulate calls it once per frame, in index order.            *)
C7_ProgressReporting ==
    /\ last.op = "print_progress" =>
          LET i == last.args[1]
              num_frames == last.args[2]
              N == last.args[3]
              due == (N > 0 /\ (i + 1) % N = 0) \/ i + 1 = num_frames
          IN  /\ last.raised = ""
              /\ last.log = IF due THEN << <<"print", i + 1, num_frames>> >>
                            ELSE <<>>
    /\ (last.op = "simulate" /\ last.raised = "") =>
          SelectSeq(last.log, LAMBDA e : e[1] = "print_progress")
              = [k \in 1..Len(last.time_points) |->
                    <<"print_progress", k - 1, Len(last.time_points)>>]

(* C8: a constructor given (or deriving) an x mesh and a y mesh of          *)
(* different shapes fails and leaves no simulator; whenever one is          *)
(* constructed, x_mesh, y_mesh and mesh_shape agree in shape.               *)
C8_ShapeMismatchRejected ==
    /\ (last.op \in {"construct", "construct_mesh"}
          /\ <<last.args[1], last.args[2]>> # <<last.args[3], last.args[4]>>) =>
          last.raised = "AssertionError" /\ ~sim.live
    /\ (last.op \in {"construct", "construct_mesh"} /\ last.raised = "") => sim.live
    /\ sim.live =>
          /\ Shape(sim.x_mesh) = Shape(sim.y_mesh)
          /\ sim.mesh_shape = Shape(sim.x_mesh)
          /\ HasShape(sim.x_mesh, sim.mesh_shape[1], sim.mesh_shape[2])
          /\ HasShape(sim.y_mesh, sim.mesh_shape[1], sim.mesh_shape[2])

C8_Witness ==
    last.op = "construct_mesh" /\ last.raised = "AssertionError" /\ ~sim.live

(* C9: for a simulator built from sequences x and y, mesh_shape is          *)
(* (len(y), len(x)) with x_mesh[i][j] = x[j] and y_mesh[i][j] = y[i]; every *)
(* array frame returns has that shape, and simulate over n time points      *)
(* returns n such arrays, its shape being (n, len(y), len(x)).              *)
C9_ShapeInvariant ==
    (sim.live /\ sim.variant = "xy") =>
        /\ sim.mesh_shape = <<Len(sim.y), Len(sim.x)>>
        /\ HasShape(sim.x_mesh, Len(sim.y), Len(sim.x))
        /\ HasShape(sim.y_mesh, Len(sim.y), Len(sim.x))
        /\ \A i \in 1..Len(sim.y) : \A j \in 1..Len(sim.x) :
              sim.x_mesh[i][j] = sim.x[j] /\ sim.y_mesh[i][j] = sim.y[i]
        /\ last.op = "frame" => HasShape(last.ret, Len(sim.y), Len(sim.x))
        /\ (last.op = "animate" /\ last.phase \in {"begun", "frame"}) =>
              HasShape(last.ret, Len(sim.y), Len(sim.x))
        /\ (last.op = "simulate" /\ last.raised = "") =>
              /\ last.ret_shape = <<Len(last.time_points), Len(sim.y), Len(sim.x)>>
              /\ Len(last.ret) = Len(last.time_points)
              /\ \A i \in 1..Len(last.ret) :
                    HasShape(last.ret[i], Len(sim.y), Len(sim.x))

C9_Witness ==
    /\ sim.live /\ sim.variant = "xy" /\ Len(sim.x) = 2 /\ Len(sim.y) = 1
    /\ last.op = "simulate" /\ last.raised = "" /\ Len(last.ret) = 4

(* C10: animate computes frame(time_points[0]) and fixes the value scale    *)
(* from it before any callback runs; generate_frame(i) computes exactly     *)
(* frame(time_points[i]) whatever ran before it, the scale staying; and for *)
(* a range with time_step > 0 and start >= stop animate yields an empty     *)
(* sequence instead of failing on its first frame.                          *)
C10_AnimateFirstFrameAndEmptyRange ==
    /\ (last.op = "animate" /\ last.phase \in {"begun", "frame"}) =>
          /\ last.first = Frame(sim, last.time_points[1])
          /\ last.clim = <<SetMin(Values(last.first)), SetMax(Values(last.first))>>
          /\ last.phase = "frame" =>
                last.ret = Frame(sim, last.time_points[last.index + 1])
    /\ (last.op = "animate" /\ last.args[3] > 0 /\ last.args[1] >= last.args[2]) =>
          last.raised = ""

====
